---- MODULE Spec2Model ----
(***************************************************************************)
(* Model of the Dashboard component of IWA-note: the reminder sweep over   *)
(* the to-do and calendar collections, and the live voice-capture session. *)
(*                                                                         *)
(* React state is modelled as two values per state hook: the value of the  *)
(* committed render, which is what the handlers created by that render     *)
(* close over (todos, calendarEvents, ...), and the value at the end of    *)
(* the hook's update queue (todosNext, ...), which is what an updater      *)
(* function  prev => ...  receives.  A handler of a discrete DOM event     *)
(* (click, key press, blur) is followed by a synchronous render of its own *)
(* updates; updates made from timers, socket callbacks and promise         *)
(* continuations are rendered later, by Render.                            *)
(***************************************************************************)
EXTENDS Integers, Sequences, FiniteSets, TLC

\* ------------------------------------------------------------------ bounds
MaxTime == 90000
MaxIds == 2
MaxSessions == 2
MaxFragments == 2
MaxDuration == 1
MaxFrames == 1
MaxAudioSessions == 1
MaxAudioFrames == 3
MaxRestartSessions == 3
MaxSamples == 3
Resolution == 4

\* --------------------------------------------------------- program constants
CheckInterval == 30000
MsPerMinute == 60000
FullScale == 32768
WindowSize == 4096
ByteRange == 256

VARIABLES
    now,                    \* wall clock, ms
    notificationPermission, \* "default" | "granted" | "denied"
    todos,                  \* to-do list of the committed render
    todosNext,              \* to-do list at the end of the update queue
    calendarEvents,         \* events of the committed render
    calendarEventsNext,     \* events at the end of the update queue
    nextId,                 \* stands for Date.now().toString()
    todoNotifications,      \* id -> number of Notification objects created
    eventNotifications,     \* id -> number of Notification objects created
    todosDirty,             \* the queue ends in another array object than the rendered todos
    eventsDirty,            \* the same for calendarEvents
    todosSaved,             \* the last step ran localStorage.setItem('iwa-todos', ...)
    eventsSaved,            \* the last step ran localStorage.setItem('iwa-events', ...)
    crashed,                \* an updater threw while rendering: React removed the tree
    mounted,                \* the Dashboard component is mounted
    isRecording,            \* voice state of the committed render ...
    isConnecting,
    transcription,
    recordingDuration,
    isRecordingNext,        \* ... and at the end of the update queues
    isConnectingNext,
    transcriptionNext,
    recordingDurationNext,
    recordingError,
    voiceNotes,
    sessionPromiseRef,      \* refs: 0 is null, i is the object made for session i
    inputAudioContextRef,
    streamRef,
    scriptProcessorRef,
    recordingTimerRef,
    starts,                 \* startRecording calls waiting for getUserMedia
    sess,                   \* per ai.live.connect call: socket, promise, devices
    nSess,                  \* number of ai.live.connect calls made
    waiters,                \* continuations waiting on a connect promise
    frames,                 \* number of audio windows captured
    sent,                   \* frames passed to sendRealtimeInput
    inputData,              \* createBlob: the Float32Array passed to it
    pcmBlob                 \* createBlob: the Blob it returned

remVars == <<now, notificationPermission, todos, todosNext, calendarEvents,
             calendarEventsNext, nextId, todoNotifications, eventNotifications,
             todosDirty, eventsDirty, todosSaved, eventsSaved, crashed>>

voiceVars == <<mounted, isRecording, isConnecting, transcription, recordingDuration,
               isRecordingNext, isConnectingNext, transcriptionNext,
               recordingDurationNext, recordingError, voiceNotes, sessionPromiseRef,
               inputAudioContextRef, streamRef, scriptProcessorRef, recordingTimerRef,
               starts, sess, nSess, waiters, frames, sent>>

blobVars == <<inputData, pcmBlob>>

vars == <<remVars, voiceVars, blobVars>>

\* ------------------------------------------------- audio helper functions
\* the characters btoa writes
Base64Alphabet ==
    <<"A", "B", "C", "D", "E", "F", "G", "H", "I", "J", "K", "L", "M",
      "N", "O", "P", "Q", "R", "S", "T", "U", "V", "W", "X", "Y", "Z",
      "a", "b", "c", "d", "e", "f", "g", "h", "i", "j", "k", "l", "m",
      "n", "o", "p", "q", "r", "s", "t", "u", "v", "w", "x", "y", "z",
      "0", "1", "2", "3", "4", "5", "6", "7", "8", "9", "+", "/">>

Base64Pad == "="

\* encode, lines 178-185: the bytes become a binary string, one character
\* per byte, and btoa writes it in base64
encode(bytes) ==
    LET len == Len(bytes)
        At(k) == IF k <= len THEN bytes[k] ELSE 0
        Digit(j) ==
            LET g == (j - 1) \div 4
                p == (j - 1) % 4
                b0 == At(3 * g + 1)
                b1 == At(3 * g + 2)
                b2 == At(3 * g + 3)
            IN CASE p = 0 -> b0 \div 4
                 [] p = 1 -> (b0 % 4) * 16 + b1 \div 16
                 [] p = 2 -> (b1 % 16) * 4 + b2 \div 64
                 [] p = 3 -> b2 % 64
        Padded(j) ==
            LET g == (j - 1) \div 4
                p == (j - 1) % 4
            IN (p = 2 /\ 3 * g + 2 > len) \/ (p = 3 /\ 3 * g + 3 > len)
    IN [j \in 1..(4 * ((len + 2) \div 3)) |->
            IF Padded(j) THEN Base64Pad ELSE Base64Alphabet[Digit(j) + 1]]

\* A sample of the Float32Array is written as the integer q that stands for
\* the float q / SampleScale: Resolution steps for each step of the int16.
SampleScale == Resolution * FullScale

\* the samples of the range [-1, 1] tried: both ends, their neighbours, zero
\* and values around it that are not whole after scaling
Samples ==
    {-SampleScale, 1 - SampleScale, -Resolution - 1, -1, 0, 1, Resolution + 1,
     SampleScale - 1, SampleScale}

\* the integer part of n / d, for d > 0
Truncate(n, d) == IF n >= 0 THEN n \div d ELSE -((-n) \div d)

\* storing the integer x in an element of an Int16Array: x modulo 2^16,
\* read as a signed 16-bit value
ToInt16(x) ==
    LET r == x % (2 * FullScale)
    IN IF r >= FullScale THEN r - 2 * FullScale ELSE r

\* int16[i] = data[i] * 32768  (line 191): for the sample q / SampleScale the
\* product is q / Resolution, and the element store keeps its integer part
Int16Of(q) == ToInt16(Truncate(q, Resolution))

\* new Uint8Array(int16): one element per sample, its value modulo 256
Uint8ArrayOfValues(int16) == [k \in 1..Len(int16) |-> int16[k] % ByteRange]

\* new Uint8Array(int16.buffer)  (line 194): the bytes of the buffer, two per
\* element, low byte first
Uint8ArrayOfBuffer(int16) ==
    [k \in 1..(2 * Len(int16)) |->
        LET u == int16[(k + 1) \div 2] % (2 * FullScale)
        IN IF k % 2 = 1 THEN u % ByteRange ELSE u \div ByteRange]

\* createBlob, lines 187-197
createBlob(data) ==
    LET int16 == [i \in 1..Len(data) |-> Int16Of(data[i])]
    IN [data |-> encode(Uint8ArrayOfBuffer(int16)), mimeType |-> "audio/pcm;rate=16000"]

\* no Blob was made yet
NoBlob == [data |-> <<>>, mimeType |-> "none"]

InitBlobVars == inputData = <<>> /\ pcmBlob = NoBlob

Ids == 1..MaxIds

\* ------------------------------------------------------------- date parsing
\* Reminder strings a datetime-local input or the stored JSON can hold.
ReminderStrings == {"", "1970-01-01T00:00:30", "1970-01-01T00:01:00", "garbage"}
EventDates == {"1970-01-01", "someday"}
EventTimes == {"00:01", "00:02"}
\* eventReminderMinutes: null (no reminder) or a number of minutes
EventReminders == {[isNull |-> TRUE, minutes |-> 0],
                   [isNull |-> FALSE, minutes |-> 0],
                   [isNull |-> FALSE, minutes |-> 1]}

\* new Date(s).getTime(): the epoch milliseconds, or NaN for an unparseable string
DateParse(s) ==
    CASE s = "1970-01-01T00:00:30" -> [nan |-> FALSE, ms |-> 30000]
      [] s = "1970-01-01T00:01:00" -> [nan |-> FALSE, ms |-> 60000]
      [] s = "1970-01-01T00:01"    -> [nan |-> FALSE, ms |-> 60000]
      [] s = "1970-01-01T00:02"    -> [nan |-> FALSE, ms |-> 120000]
      [] OTHER                     -> [nan |-> TRUE,  ms |-> 0]

\* `${event.date}T${event.time}`
EventDateTimeString(date, time) ==
    IF date = "1970-01-01" /\ time = "00:01" THEN "1970-01-01T00:01"
    ELSE IF date = "1970-01-01" /\ time = "00:02" THEN "1970-01-01T00:02"
    ELSE "Invalid Date"

\* a comparison that reads an Invalid Date as the epoch:  (d.getTime() || 0) <= now
DateLeqNaNAsEpoch(d, t) == (IF d.nan THEN 0 ELSE d.ms) <= t

\* d <= now on Date objects: false whenever d is an Invalid Date
DateLeq(d, t) == ~d.nan /\ d.ms <= t

\* ------------------------------------------------------------------- sweep
\* the condition of line 323 without  !todo.completed
TodoDueIgnoresCompleted(todo, t) ==
    /\ todo.reminder # ""
    /\ ~todo.notified
    /\ DateLeq(DateParse(todo.reminder), t)

\* the condition of line 323
TodoDue(todo, t) ==
    /\ todo.reminder # ""
    /\ ~todo.completed
    /\ ~todo.notified
    /\ DateLeq(DateParse(todo.reminder), t)

\* the updater passed to setTodos by checkReminders
SweepTodos(prevTodos, t) ==
    [i \in 1..Len(prevTodos) |->
        IF TodoDue(prevTodos[i], t)
        THEN [prevTodos[i] EXCEPT !.notified = TRUE]
        ELSE prevTodos[i]]

\* the Notification objects that updater creates, per to-do id
TodoFired(prevTodos, t) ==
    [id \in Ids |-> Cardinality({i \in 1..Len(prevTodos) :
                        prevTodos[i].id = id /\ TodoDue(prevTodos[i], t)})]

\* eventDateTime.getTime() - event.reminder * 60000, as a Date
ReminderTime(event) ==
    LET eventDateTime == DateParse(EventDateTimeString(event.date, event.time))
    IN [nan |-> eventDateTime.nan,
        ms  |-> eventDateTime.ms - event.reminder.minutes * MsPerMinute]

\* the conditions of lines 339 and 343
EventDue(event, t) ==
    /\ ~event.reminder.isNull
    /\ ~event.notified
    /\ DateLeq(ReminderTime(event), t)

\* the updater passed to setCalendarEvents by checkReminders
SweepEvents(prevEvents, t) ==
    [i \in 1..Len(prevEvents) |->
        IF EventDue(prevEvents[i], t)
        THEN [prevEvents[i] EXCEPT !.notified = TRUE]
        ELSE prevEvents[i]]

EventFired(prevEvents, t) ==
    [id \in Ids |-> Cardinality({i \in 1..Len(prevEvents) :
                        prevEvents[i].id = id /\ EventDue(prevEvents[i], t)})]

\* the sweep without its needsUpdate test:  return newTodos
NeedsUpdateAlways(prev, t) == TRUE

\* needsUpdate of the to-do updater (lines 319-332)
TodosNeedUpdate(prevTodos, t) ==
    \E i \in 1..Len(prevTodos) : TodoDue(prevTodos[i], t)

\* needsUpdate of the event updater (lines 337-356)
EventsNeedUpdate(prevEvents, t) ==
    \E i \in 1..Len(prevEvents) : EventDue(prevEvents[i], t)

\* ----------------------------------------------------------------- helpers
RECURSIVE FilterSeq(_, _)
FilterSeq(s, keep) ==
    IF s = <<>> THEN <<>>
    ELSE IF Head(s).id \in keep THEN <<Head(s)>> \o FilterSeq(Tail(s), keep)
    ELSE FilterSeq(Tail(s), keep)

IdsOf(s) == {s[i].id : i \in 1..Len(s)}

RecOf(s, id) == s[CHOOSE i \in 1..Len(s) : s[i].id = id]

\* =================================================== voice-capture session
Sessions == 1..MaxRestartSessions

\* transcript text: a sequence of characters
Fragments == {<<"a">>, <<" ">>}

\* String.prototype.trim
RECURSIVE TrimLeft(_)
TrimLeft(str) ==
    IF str # <<>> /\ Head(str) = " " THEN TrimLeft(Tail(str)) ELSE str

RECURSIVE TrimRight(_)
TrimRight(str) ==
    IF str # <<>> /\ str[Len(str)] = " "
    THEN TrimRight(SubSeq(str, 1, Len(str) - 1)) ELSE str

Trim(str) == TrimRight(TrimLeft(str))

NoSession ==
    [sock |-> "none",        \* WebSocket: none, connecting, open, closing, closed, failed
     promise |-> "none",     \* promise returned by ai.live.connect: pending, resolved, rejected
     stream |-> "none",      \* MediaStream of getUserMedia: live, stopped
     ctx |-> "none",         \* AudioContext: running, closed
     processor |-> "none",   \* ScriptProcessorNode: wired, disconnected
     procCtx |-> 0,          \* the AudioContext the processor was created on
     timer |-> "none",       \* duration interval: running, cleared
     stopTr |-> <<>>,        \* transcription and recordingDuration held by the
     stopDur |-> 0,          \*   stopRecording that startRecording closed over
     closes |-> 0,           \* calls of session.close()
     heard |-> <<>>,         \* text delivered by onmessage
     late |-> FALSE,         \* a fragment arrived after session.close()
     ticks |-> 0,            \* calls of the duration interval's callback
     cancelled |-> FALSE,    \* stopRecording was called while the promise was pending
     stopCalled |-> FALSE,   \* stopRecording was called while this was the session
     errText |-> <<>>]       \* text accumulated when onerror came while recording

InitVoiceVars ==
    /\ mounted = TRUE
    /\ isRecording = FALSE
    /\ isConnecting = FALSE
    /\ transcription = <<>>
    /\ recordingDuration = 0
    /\ isRecordingNext = FALSE
    /\ isConnectingNext = FALSE
    /\ transcriptionNext = <<>>
    /\ recordingDurationNext = 0
    /\ recordingError = "null"
    /\ voiceNotes = <<>>
    /\ sessionPromiseRef = 0
    /\ inputAudioContextRef = 0
    /\ streamRef = 0
    /\ scriptProcessorRef = 0
    /\ recordingTimerRef = 0
    /\ starts = <<>>
    /\ sess = [i \in Sessions |-> NoSession]
    /\ nSess = 0
    /\ waiters = <<>>
    /\ frames = 0
    /\ sent = <<>>

\* The voice state as one record, so that the functions of the component can
\* be written as operators from state to state.
Cur ==
    [mounted |-> mounted, isRecording |-> isRecording, isConnecting |-> isConnecting,
     transcription |-> transcription, recordingDuration |-> recordingDuration,
     isRecordingNext |-> isRecordingNext, isConnectingNext |-> isConnectingNext,
     transcriptionNext |-> transcriptionNext,
     recordingDurationNext |-> recordingDurationNext,
     recordingError |-> recordingError, voiceNotes |-> voiceNotes,
     sessionPromiseRef |-> sessionPromiseRef,
     inputAudioContextRef |-> inputAudioContextRef, streamRef |-> streamRef,
     scriptProcessorRef |-> scriptProcessorRef, recordingTimerRef |-> recordingTimerRef,
     starts |-> starts, sess |-> sess, nSess |-> nSess, waiters |-> waiters,
     frames |-> frames, sent |-> sent]

Set(m) ==
    /\ mounted' = m.mounted
    /\ isRecording' = m.isRecording
    /\ isConnecting' = m.isConnecting
    /\ transcription' = m.transcription
    /\ recordingDuration' = m.recordingDuration
    /\ isRecordingNext' = m.isRecordingNext
    /\ isConnectingNext' = m.isConnectingNext
    /\ transcriptionNext' = m.transcriptionNext
    /\ recordingDurationNext' = m.recordingDurationNext
    /\ recordingError' = m.recordingError
    /\ voiceNotes' = m.voiceNotes
    /\ sessionPromiseRef' = m.sessionPromiseRef
    /\ inputAudioContextRef' = m.inputAudioContextRef
    /\ streamRef' = m.streamRef
    /\ scriptProcessorRef' = m.scriptProcessorRef
    /\ recordingTimerRef' = m.recordingTimerRef
    /\ starts' = m.starts
    /\ sess' = m.sess
    /\ nSess' = m.nSess
    /\ waiters' = m.waiters
    /\ frames' = m.frames
    /\ sent' = m.sent
    /\ UNCHANGED <<remVars, blobVars>>

\* --- state setters.  A setter called on an unmounted component does nothing.
\* sync: the call is made inside a discrete DOM event, whose updates React
\* renders before the event ends.
SetIsRecording(m, v, sync) ==
    IF ~m.mounted THEN m
    ELSE [m EXCEPT !.isRecordingNext = v, !.isRecording = IF sync THEN v ELSE @]

SetIsConnecting(m, v, sync) ==
    IF ~m.mounted THEN m
    ELSE [m EXCEPT !.isConnectingNext = v, !.isConnecting = IF sync THEN v ELSE @]

SetTranscription(m, v, sync) ==
    IF ~m.mounted THEN m
    ELSE [m EXCEPT !.transcriptionNext = v, !.transcription = IF sync THEN v ELSE @]

SetRecordingDuration(m, v, sync) ==
    IF ~m.mounted THEN m
    ELSE [m EXCEPT !.recordingDurationNext = v,
                   !.recordingDuration = IF sync THEN v ELSE @]

SetRecordingError(m, v) ==
    IF ~m.mounted THEN m ELSE [m EXCEPT !.recordingError = v]

\* setVoiceNotes(prev => [newVoiceNote, ...prev])
AddVoiceNote(m, note) ==
    IF ~m.mounted THEN m ELSE [m EXCEPT !.voiceNotes = <<note>> \o @]

Settled(m, p) == m.sess[p].promise \in {"resolved", "rejected"}

\* stopRecording without lines 587-588: the script processor stays connected
StopRecordingRestKeepsProcessor(m, tr, dur, sync) ==
    LET m1 == IF m.streamRef # 0
              THEN [m EXCEPT !.sess[m.streamRef].stream = "stopped", !.streamRef = 0]
              ELSE m
        m3 == IF m1.inputAudioContextRef # 0
              THEN [m1 EXCEPT !.sess[m1.inputAudioContextRef].ctx = "closed",
                              !.inputAudioContextRef = 0]
              ELSE m1
        m4 == IF Trim(tr) # <<>>
              THEN AddVoiceNote(m3, [transcription |-> tr, duration |-> dur])
              ELSE m3
    IN SetRecordingDuration(SetTranscription(m4, <<>>, sync), 0, sync)

\* --- stopRecording, lines 583-598: the part after the await
StopRecordingRest(m, tr, dur, sync) ==
    LET m1 == IF m.streamRef # 0
              THEN [m EXCEPT !.sess[m.streamRef].stream = "stopped", !.streamRef = 0]
              ELSE m
        m2 == IF m1.scriptProcessorRef # 0
              THEN [m1 EXCEPT !.sess[m1.scriptProcessorRef].processor = "disconnected",
                              !.scriptProcessorRef = 0]
              ELSE m1
        m3 == IF m2.inputAudioContextRef # 0
              THEN [m2 EXCEPT !.sess[m2.inputAudioContextRef].ctx = "closed",
                              !.inputAudioContextRef = 0]
              ELSE m2
        m4 == IF Trim(tr) # <<>>
              THEN AddVoiceNote(m3, [transcription |-> tr, duration |-> dur])
              ELSE m3
    IN SetRecordingDuration(SetTranscription(m4, <<>>, sync), 0, sync)

\* session.close(); sessionPromiseRef.current = null  (lines 580-581)
CloseSession(m, p) ==
    [m EXCEPT !.sess[p].sock = IF @ \in {"connecting", "open"} THEN "closing" ELSE @,
              !.sess[p].closes = @ + 1,
              !.sessionPromiseRef = 0]

\* --- stopRecording, lines 570-582: up to the await.  tr and dur are the
\* transcription and recordingDuration this stopRecording closed over.
StopRecording(m, tr, dur, sync) ==
    LET m1 == SetIsConnecting(SetIsRecording(m, FALSE, sync), FALSE, sync)
        m2 == IF m1.recordingTimerRef # 0
              THEN [m1 EXCEPT !.sess[m1.recordingTimerRef].timer = "cleared",
                              !.recordingTimerRef = 0]
              ELSE m1
        p == m2.sessionPromiseRef
    IN IF p # 0
       THEN [m2 EXCEPT !.waiters = Append(@,
                [kind |-> "stop", pc |-> "await", p |-> p, tr |-> tr, dur |-> dur,
                 sync |-> sync /\ Settled(m2, p), frame |-> 0]),
                       !.sess[p].stopCalled = TRUE,
                       !.sess[p].cancelled = @ \/ m2.sess[p].promise = "pending"]
       ELSE StopRecordingRest(m2, tr, dur, sync)

\* --- the effect of lines 670-676.  Its dependencies are isRecording and
\* stopRecording, and stopRecording is a new function whenever transcription
\* or recordingDuration changed (line 599); when a render changes any of the
\* three, the cleanup of the previous render's effect runs with that render's
\* isRecording and stopRecording.
EffectDeps(m) == <<m.isRecording, m.transcription, m.recordingDuration>>

RunEffects(old, new, sync) ==
    IF EffectDeps(new) # EffectDeps(old) /\ old.isRecording
    THEN StopRecording(new, old.transcription, old.recordingDuration, sync)
    ELSE new

\* a continuation of a settled promise is waiting: it runs before any other
\* callback, event or render
MicrotaskRunnable == \E k \in 1..Len(waiters) : Settled(Cur, waiters[k].p)

\* number of transcript fragments delivered so far, over all sessions
RECURSIVE DeliveredUpTo(_)
DeliveredUpTo(n) == IF n = 0 THEN 0 ELSE Len(sess[n].heard) + DeliveredUpTo(n - 1)

Delivered == DeliveredUpTo(MaxRestartSessions)

RemoveAt(q, k) == SubSeq(q, 1, k - 1) \o SubSeq(q, k + 1, Len(q))

\* ----------------------------------------------------------- voice actions
\* click on the record button while it shows the microphone: startRecording
\* up to  await getUserMedia
ClickStartUpTo(maxSessions) ==
    /\ mounted /\ ~MicrotaskRunnable
    /\ ~isRecording /\ ~isConnecting
    /\ nSess + Len(starts) < maxSessions
    /\ LET m == Cur
           m1 == SetIsConnecting(SetTranscription(m, <<>>, TRUE), TRUE, TRUE)
           m2 == SetRecordingError(m1, "null")
           m3 == [m2 EXCEPT !.starts = Append(@, [tr |-> m.transcription,
                                                  dur |-> m.recordingDuration])]
       IN Set(RunEffects(m, m3, TRUE))

ClickStart == ClickStartUpTo(MaxSessions)

\* getUserMedia resolved: startRecording lines 607-658
GetUserMediaResolved(k) ==
    /\ ~MicrotaskRunnable
    /\ k \in 1..Len(starts)
    /\ LET m == Cur
           i == nSess + 1
       IN Set([m EXCEPT
                !.starts = RemoveAt(@, k),
                !.nSess = i,
                !.streamRef = i,
                !.inputAudioContextRef = i,
                !.sessionPromiseRef = i,
                !.sess[i] = [NoSession EXCEPT !.sock = "connecting",
                                !.promise = "pending", !.stream = "live",
                                !.ctx = "running",
                                !.stopTr = starts[k].tr, !.stopDur = starts[k].dur]])

\* the catch block without line 666: isConnecting is left set
GetUserMediaRejectedStaysConnecting(k, errorName) ==
    /\ ~MicrotaskRunnable
    /\ k \in 1..Len(starts)
    /\ LET m == [Cur EXCEPT !.starts = RemoveAt(@, k)]
           msg == IF errorName = "NotAllowedError" THEN "permission" ELSE "start"
       IN Set(SetRecordingError(m, msg))

\* getUserMedia rejected: the catch block, lines 659-667
GetUserMediaRejected(k, errorName) ==
    /\ ~MicrotaskRunnable
    /\ k \in 1..Len(starts)
    /\ LET m == [Cur EXCEPT !.starts = RemoveAt(@, k)]
           msg == IF errorName = "NotAllowedError" THEN "permission" ELSE "start"
       IN Set(SetIsConnecting(SetRecordingError(m, msg), FALSE, FALSE))

\* The socket opens: callbacks.onopen, lines 615-638, runs and the promise of
\* ai.live.connect resolves with the session in the same turn.
OnOpen(i) ==
    /\ ~MicrotaskRunnable
    /\ sess[i].sock = "connecting"
    /\ LET m == [Cur EXCEPT !.sess[i].sock = "open", !.sess[i].promise = "resolved"]
           m1 == SetRecordingDuration(
                    SetIsRecording(SetIsConnecting(m, FALSE, FALSE), TRUE, FALSE),
                    0, FALSE)
           m2 == IF m1.recordingTimerRef # 0
                 THEN [m1 EXCEPT !.sess[m1.recordingTimerRef].timer = "cleared"]
                 ELSE m1
           m3 == [m2 EXCEPT !.sess[i].timer = "running", !.recordingTimerRef = i]
       IN \* inputAudioContextRef.current!.createMediaStreamSource throws on null
          IF m3.inputAudioContextRef = 0
          THEN Set(m3)
          ELSE Set([m3 EXCEPT !.sess[i].processor = "wired",
                              !.sess[i].procCtx = m3.inputAudioContextRef,
                              !.scriptProcessorRef = i])

\* the promise of ai.live.connect rejects: the connection was never opened
ConnectRejected(i) ==
    /\ ~MicrotaskRunnable
    /\ sess[i].promise = "pending"
    /\ sess' = [sess EXCEPT ![i].promise = "rejected",
                            ![i].sock = IF @ = "connecting" THEN "failed" ELSE @]
    /\ UNCHANGED <<remVars, blobVars, mounted, isRecording, isConnecting, transcription,
                   recordingDuration, isRecordingNext, isConnectingNext,
                   transcriptionNext, recordingDurationNext, recordingError,
                   voiceNotes, sessionPromiseRef, inputAudioContextRef, streamRef,
                   scriptProcessorRef, recordingTimerRef, starts, nSess, waiters,
                   frames, sent>>

\* callbacks.onmessage with an inputTranscription, lines 639-644
OnMessage(i, text) ==
    /\ ~MicrotaskRunnable
    /\ sess[i].sock \in {"open", "closing"}
    /\ Delivered < MaxFragments
    /\ LET m == [Cur EXCEPT !.sess[i].heard = @ \o text,
                            !.sess[i].late = @ \/ sess[i].sock = "closing"]
       IN Set(SetTranscription(m, m.transcriptionNext \o text, FALSE))

\* callbacks.onerror, lines 645-649: the stopRecording it calls is the one
\* startRecording closed over
OnError(i) ==
    /\ ~MicrotaskRunnable
    /\ sess[i].sock \in {"connecting", "open", "closing"}
    /\ LET m == [Cur EXCEPT !.sess[i].sock = "failed",
                            !.sess[i].errText =
                                IF mounted /\ sess[i].sock = "open" /\ isRecordingNext
                                THEN transcriptionNext ELSE <<>>]
       IN Set(StopRecording(SetRecordingError(m, "connection"),
                            sess[i].stopTr, sess[i].stopDur, FALSE))

\* callbacks.onclose after session.close(), lines 650-652
OnClose(i) ==
    /\ ~MicrotaskRunnable
    /\ sess[i].sock = "closing"
    /\ Set([Cur EXCEPT !.sess[i].sock = "closed"])

\* the interval of lines 621-623
DurationTick(i) ==
    /\ ~MicrotaskRunnable
    /\ sess[i].timer = "running"
    /\ sess[i].ticks < MaxDuration
    /\ LET m == [Cur EXCEPT !.sess[i].ticks = @ + 1]
       IN Set(SetRecordingDuration(m, m.recordingDurationNext + 1, FALSE))

\* scriptProcessor.onaudioprocess, lines 629-635
\* onaudioprocess with a stale `if (isRecording)` guard around the send: the
\* isRecording of the render in which start was clicked is false
AudioProcessGuardedByStaleState(i, maxFrames) ==
    /\ ~MicrotaskRunnable
    /\ sess[i].processor = "wired"
    /\ sess[sess[i].procCtx].ctx = "running"
    /\ frames < maxFrames
    /\ Set([Cur EXCEPT !.frames = @ + 1])

AudioProcessUpTo(i, maxFrames) ==
    /\ ~MicrotaskRunnable
    /\ sess[i].processor = "wired"
    /\ sess[sess[i].procCtx].ctx = "running"
    /\ frames < maxFrames
    /\ LET m == [Cur EXCEPT !.frames = @ + 1]
           p == sessionPromiseRef
       IN IF p = 0 \/ sess[p].promise = "rejected"
          THEN Set(m)
          ELSE IF sess[p].promise = "resolved"
          THEN Set([m EXCEPT !.sent = Append(@,
                      [frame |-> m.frames, session |-> p, sock |-> sess[p].sock])])
          ELSE Set([m EXCEPT !.waiters = Append(@,
                      [kind |-> "send", pc |-> "await", p |-> p, tr |-> <<>>,
                       dur |-> 0, sync |-> FALSE, frame |-> m.frames])])

AudioProcess(i) == AudioProcessUpTo(i, MaxFrames)

\* React renders the queued updates of the voice state, then runs the effect
RenderVoice ==
    /\ mounted /\ ~MicrotaskRunnable
    /\ <<isRecording, isConnecting, transcription, recordingDuration>> #
       <<isRecordingNext, isConnectingNext, transcriptionNext, recordingDurationNext>>
    /\ LET m == Cur
           new == [m EXCEPT !.isRecording = m.isRecordingNext,
                            !.isConnecting = m.isConnectingNext,
                            !.transcription = m.transcriptionNext,
                            !.recordingDuration = m.recordingDurationNext]
       IN Set(RunEffects(m, new, FALSE))

\* click on the record button while it shows the stop icon: stopRecording of
\* the committed render, then the render of its updates and the effect
ClickStop ==
    /\ mounted /\ ~MicrotaskRunnable
    /\ isRecording /\ ~isConnecting
    /\ LET m == Cur
           m1 == StopRecording(m, m.transcription, m.recordingDuration, TRUE)
       IN Set(RunEffects(m, m1, TRUE))

\* the Dashboard is unmounted (logout): the effect's cleanup runs
Unmount ==
    /\ mounted /\ ~MicrotaskRunnable
    /\ LET m == [Cur EXCEPT !.mounted = FALSE]
       IN IF isRecording
          THEN Set(StopRecording(m, transcription, recordingDuration, FALSE))
          ELSE Set(m)

\* the first waiting continuation whose promise is settled runs
RunMicrotask ==
    /\ MicrotaskRunnable
    /\ LET k == CHOOSE j \in 1..Len(waiters) :
                  /\ Settled(Cur, waiters[j].p)
                  /\ \A h \in 1..(j - 1) : ~Settled(Cur, waiters[h].p)
           w == waiters[k]
           m == [Cur EXCEPT !.waiters = RemoveAt(@, k)]
       IN IF sess[w.p].promise = "rejected"
          THEN Set(m)   \* the await throws, the then-callback is never called
          ELSE IF w.kind = "stop" /\ w.pc = "await"
          THEN \* lines 580-581; the rest of stopRecording follows in the same turn
               Set(CloseSession([Cur EXCEPT !.waiters[k].pc = "closed"], w.p))
          ELSE IF w.kind = "stop"
          THEN LET m1 == StopRecordingRest(m, w.tr, w.dur, w.sync)
               IN Set(RunEffects(m, m1, w.sync))
          ELSE Set([m EXCEPT !.sent = Append(@,
                      [frame |-> w.frame, session |-> w.p, sock |-> sess[w.p].sock])])

NextVoice ==
    \/ ClickStart
    \/ \E k \in 1..MaxSessions : GetUserMediaResolved(k)
    \/ \E k \in 1..MaxSessions, e \in {"NotAllowedError", "NotFoundError"} :
          GetUserMediaRejected(k, e)
    \/ \E i \in Sessions : OnOpen(i)
    \/ \E i \in Sessions : ConnectRejected(i)
    \/ \E i \in Sessions, text \in Fragments : OnMessage(i, text)
    \/ \E i \in Sessions : OnError(i)
    \/ \E i \in Sessions : OnClose(i)
    \/ \E i \in Sessions : DurationTick(i)
    \/ \E i \in Sessions : AudioProcess(i)
    \/ RenderVoice
    \/ ClickStop
    \/ Unmount
    \/ RunMicrotask


\* -------------------------------------------------------------------- init
InitRemVars ==
    /\ now = 0
    /\ notificationPermission \in {"default", "granted"}
    /\ todos = <<>>
    /\ todosNext = <<>>
    /\ calendarEvents = <<>>
    /\ calendarEventsNext = <<>>
    /\ nextId = 1
    /\ todoNotifications = [id \in Ids |-> 0]
    /\ eventNotifications = [id \in Ids |-> 0]
    /\ todosDirty = FALSE
    /\ eventsDirty = FALSE
    /\ todosSaved = FALSE
    /\ eventsSaved = FALSE
    /\ crashed = FALSE

\* ----------------------------------------------------------------- actions
\* Notification.requestPermission().then(setNotificationPermission)
RequestPermissionResolved ==
    /\ ~crashed
    /\ notificationPermission = "default"
    /\ notificationPermission' \in {"granted", "denied"}
    /\ todosSaved' = FALSE /\ eventsSaved' = FALSE
    /\ UNCHANGED <<now, todos, todosNext, calendarEvents, calendarEventsNext,
                   nextId, todoNotifications, eventNotifications,
                   todosDirty, eventsDirty>>
    /\ UNCHANGED <<crashed, voiceVars, blobVars>>

\* the effect without line 312
SweepEnabledAlways(permission) == TRUE

\* if (notificationPermission !== 'granted') return;   (line 312)
SweepEnabled(permission) == permission = "granted"

\* One period of setInterval(checkReminders, 30000).  The interval exists
\* only while the effect saw notificationPermission === 'granted'.
checkReminders ==
    /\ ~crashed
    /\ now + CheckInterval <= MaxTime
    /\ now' = now + CheckInterval
    /\ IF SweepEnabled(notificationPermission)
       THEN /\ todosNext' = SweepTodos(todosNext, now')
            /\ todoNotifications' =
                  [id \in Ids |-> todoNotifications[id] + TodoFired(todosNext, now')[id]]
            /\ calendarEventsNext' = SweepEvents(calendarEventsNext, now')
            /\ eventNotifications' =
                  [id \in Ids |-> eventNotifications[id] + EventFired(calendarEventsNext, now')[id]]
            \* return needsUpdate ? newTodos : prevTodos
            /\ todosDirty' = (todosDirty \/ TodosNeedUpdate(todosNext, now'))
            /\ eventsDirty' = (eventsDirty \/ EventsNeedUpdate(calendarEventsNext, now'))
       ELSE UNCHANGED <<todosNext, todoNotifications, calendarEventsNext,
                        eventNotifications, todosDirty, eventsDirty>>
    /\ todosSaved' = FALSE /\ eventsSaved' = FALSE
    /\ UNCHANGED <<notificationPermission, todos, calendarEvents, nextId>>
    /\ UNCHANGED <<crashed, voiceVars, blobVars>>

\* the due to-dos whose `new Notification` throws in this sweep
ThrowingTodos(prevTodos, t, failing) ==
    {i \in 1..Len(prevTodos) : TodoDue(prevTodos[i], t) /\ prevTodos[i].id \in failing}

\* the event updater when `new Notification` throws for the ids in failing:
\* the catch of line 351 logs, and  return event  leaves the record as it was
SweepEventsThrowing(prevEvents, t, failing) ==
    [i \in 1..Len(prevEvents) |->
        IF EventDue(prevEvents[i], t) /\ prevEvents[i].id \notin failing
        THEN [prevEvents[i] EXCEPT !.notified = TRUE]
        ELSE prevEvents[i]]

\* One period of the interval in which `new Notification` throws for the
\* records with an id in failing (the constructor throws a TypeError where
\* the platform only allows notifications from a service worker).  The to-do
\* updater has no try/catch: the exception leaves the updater, React meets it
\* again when it renders the update, and without an error boundary removes
\* the tree; the event updater, later in the render, is not reached.
checkRemindersThrowing(failing) ==
    /\ ~crashed
    /\ SweepEnabled(notificationPermission)
    /\ now + CheckInterval <= MaxTime
    /\ now' = now + CheckInterval
    /\ \/ ThrowingTodos(todosNext, now', failing) # {}
       \/ \E i \in 1..Len(calendarEventsNext) :
             EventDue(calendarEventsNext[i], now') /\ calendarEventsNext[i].id \in failing
    /\ IF ThrowingTodos(todosNext, now', failing) # {}
       THEN LET bad == ThrowingTodos(todosNext, now', failing)
                first == CHOOSE i \in bad : \A j \in bad : i <= j
            IN /\ todoNotifications' =
                     [id \in Ids |-> todoNotifications[id] +
                         Cardinality({i \in 1..(first - 1) :
                             todosNext[i].id = id /\ TodoDue(todosNext[i], now')})]
               /\ crashed' = TRUE
               /\ UNCHANGED <<todosNext, calendarEventsNext, eventNotifications,
                              todosDirty, eventsDirty>>
       ELSE /\ todosNext' = SweepTodos(todosNext, now')
            /\ todoNotifications' =
                  [id \in Ids |-> todoNotifications[id] + TodoFired(todosNext, now')[id]]
            /\ todosDirty' = (todosDirty \/ TodosNeedUpdate(todosNext, now'))
            /\ calendarEventsNext' = SweepEventsThrowing(calendarEventsNext, now', failing)
            /\ eventNotifications' =
                  [id \in Ids |-> eventNotifications[id] +
                      IF id \in failing THEN 0 ELSE EventFired(calendarEventsNext, now')[id]]
            /\ eventsDirty' = (eventsDirty \/ calendarEventsNext' # calendarEventsNext)
            /\ crashed' = FALSE
    /\ todosSaved' = FALSE /\ eventsSaved' = FALSE
    /\ UNCHANGED <<notificationPermission, todos, calendarEvents, nextId>>
    /\ UNCHANGED <<voiceVars, blobVars>>

\* React renders the queued updates: the next render's closures see them,
\* and the auto-save effects of lines 293-303 run for each collection whose
\* array object changed.
RenderCollections ==
    /\ ~crashed
    /\ todosDirty \/ eventsDirty
    /\ todos' = todosNext
    /\ calendarEvents' = calendarEventsNext
    /\ todosSaved' = todosDirty /\ eventsSaved' = eventsDirty
    /\ todosDirty' = FALSE /\ eventsDirty' = FALSE
    /\ UNCHANGED <<now, notificationPermission, todosNext, calendarEventsNext,
                   nextId, todoNotifications, eventNotifications>>
    /\ UNCHANGED <<crashed, voiceVars, blobVars>>

handleAddTodo(reminder) ==
    /\ ~crashed
    /\ nextId <= MaxIds
    /\ LET newTodoItem == [id |-> nextId, text |-> "x", completed |-> FALSE,
                           reminder |-> reminder, notified |-> FALSE]
       IN /\ todosNext' = Append(todosNext, newTodoItem)
          /\ todos' = Append(todos, newTodoItem)
    /\ nextId' = nextId + 1
    /\ todosSaved' = TRUE /\ eventsSaved' = FALSE
    /\ UNCHANGED <<now, notificationPermission, calendarEvents, calendarEventsNext,
                   todoNotifications, eventNotifications, todosDirty, eventsDirty>>
    /\ UNCHANGED <<crashed, voiceVars, blobVars>>

\* setTodos(value) from a click handler: the value replaces the state
SetTodosValue(value) ==
    /\ ~crashed
    /\ todosNext' = value
    /\ todos' = value
    /\ todosDirty' = FALSE
    /\ todosSaved' = TRUE /\ eventsSaved' = FALSE
    /\ UNCHANGED <<now, notificationPermission, calendarEvents, calendarEventsNext,
                   nextId, todoNotifications, eventNotifications, eventsDirty>>
    /\ UNCHANGED <<crashed, voiceVars, blobVars>>

\* todos.map(todo => todo.id === id ? { ...todo, completed: !todo.completed } : todo)
Toggled(prev, id) ==
    [i \in 1..Len(prev) |->
        IF prev[i].id = id THEN [prev[i] EXCEPT !.completed = ~prev[i].completed]
        ELSE prev[i]]

\* todos.map(todo => todo.id === id ? { ...todo, text: editingTodoText.trim() } : todo)
Edited(prev, id, text) ==
    [i \in 1..Len(prev) |->
        IF prev[i].id = id THEN [prev[i] EXCEPT !.text = text] ELSE prev[i]]

toggleTodo(id) ==
    /\ id \in IdsOf(todos)
    /\ SetTodosValue(Toggled(todos, id))

handleDeleteTodo(id) ==
    /\ id \in IdsOf(todos)
    /\ SetTodosValue(FilterSeq(todos, IdsOf(todos) \ {id}))

handleSaveEditTodo(id, editingTodoText) ==
    /\ id \in IdsOf(todos)
    /\ IF editingTodoText = ""
       THEN SetTodosValue(FilterSeq(todos, IdsOf(todos) \ {id}))
       ELSE SetTodosValue(Edited(todos, id, editingTodoText))

\* the continuation of handleScheduleEvent after generateContent resolved
handleScheduleEvent(date, time, eventReminderMinutes) ==
    /\ ~crashed
    /\ nextId <= MaxIds
    /\ LET newEvent == [id |-> nextId, date |-> date, time |-> time,
                        reminder |-> eventReminderMinutes, notified |-> FALSE]
       IN calendarEventsNext' = <<newEvent>> \o calendarEventsNext
    /\ nextId' = nextId + 1
    /\ eventsDirty' = TRUE
    /\ todosSaved' = FALSE /\ eventsSaved' = FALSE
    /\ UNCHANGED <<now, notificationPermission, todos, todosNext, calendarEvents,
                   todoNotifications, eventNotifications, todosDirty>>
    /\ UNCHANGED <<crashed, voiceVars, blobVars>>

handleDeleteEvent(id) ==
    /\ ~crashed
    /\ id \in IdsOf(calendarEvents)
    /\ calendarEventsNext' = FilterSeq(calendarEvents, IdsOf(calendarEvents) \ {id})
    /\ calendarEvents' = calendarEventsNext'
    /\ eventsDirty' = FALSE
    /\ todosSaved' = FALSE /\ eventsSaved' = TRUE
    /\ UNCHANGED <<now, notificationPermission, todos, todosNext, nextId,
                   todoNotifications, eventNotifications, todosDirty>>
    /\ UNCHANGED <<crashed, voiceVars, blobVars>>

NextReminders ==
    \/ RequestPermissionResolved
    \/ checkReminders
    \/ RenderCollections
    \/ \E r \in ReminderStrings : handleAddTodo(r)
    \/ \E id \in Ids : toggleTodo(id)
    \/ \E id \in Ids : handleDeleteTodo(id)
    \/ \E id \in Ids, text \in {"", "y"} : handleSaveEditTodo(id, text)
    \/ \E d \in EventDates, tm \in EventTimes, r \in EventReminders :
          handleScheduleEvent(d, tm, r)
    \/ \E id \in Ids : handleDeleteEvent(id)

InitReminders == InitRemVars /\ InitVoiceVars /\ InitBlobVars

SpecReminders == InitReminders /\ [][NextReminders]_vars

\* the reminders on a platform where `new Notification` can throw
NextNotify ==
    \/ NextReminders
    \/ \E failing \in SUBSET Ids : checkRemindersThrowing(failing)

SpecNotify == InitReminders /\ [][NextNotify]_vars

InitVoice ==
    /\ InitRemVars
    /\ notificationPermission = "default"
    /\ InitVoiceVars
    /\ InitBlobVars

SpecVoice == InitVoice /\ [][NextVoice]_vars

\* one session with more audio windows
NextAudio ==
    \/ ClickStartUpTo(MaxAudioSessions)
    \/ \E k \in 1..MaxAudioSessions : GetUserMediaResolved(k)
    \/ \E k \in 1..MaxAudioSessions, e \in {"NotAllowedError", "NotFoundError"} :
          GetUserMediaRejected(k, e)
    \/ \E i \in Sessions : OnOpen(i)
    \/ \E i \in Sessions : ConnectRejected(i)
    \/ \E i \in Sessions, text \in Fragments : OnMessage(i, text)
    \/ \E i \in Sessions : OnError(i)
    \/ \E i \in Sessions : OnClose(i)
    \/ \E i \in Sessions : DurationTick(i)
    \/ \E i \in Sessions : AudioProcessUpTo(i, MaxAudioFrames)
    \/ RenderVoice
    \/ ClickStop
    \/ Unmount
    \/ RunMicrotask

SpecAudio == InitVoice /\ [][NextAudio]_vars

\* sessions started one after the other: clicks, renders, the socket's open,
\* error and close, and the duration timer
NextRestart ==
    \/ ClickStartUpTo(MaxRestartSessions)
    \/ \E k \in 1..MaxRestartSessions : GetUserMediaResolved(k)
    \/ \E i \in Sessions : OnOpen(i)
    \/ \E i \in Sessions : OnError(i)
    \/ \E i \in Sessions : OnClose(i)
    \/ \E i \in Sessions : DurationTick(i)
    \/ RenderVoice
    \/ ClickStop
    \/ RunMicrotask

SpecRestart == InitVoice /\ [][NextRestart]_vars

\* sessions started one after the other, with the audio callback
NextRestartAudio ==
    \/ NextRestart
    \/ \E i \in Sessions : AudioProcessUpTo(i, MaxFrames)

SpecRestartAudio == InitVoice /\ [][NextRestartAudio]_vars

\* createBlob applied to one buffer of samples: buffers of up to MaxSamples
\* samples, and the silent window of the script processor (line 626)
InputBuffers ==
    UNION {[1..n -> Samples] : n \in 0..MaxSamples} \cup {[i \in 1..WindowSize |-> 0]}

InitBlob ==
    /\ InitRemVars
    /\ notificationPermission = "default"
    /\ InitVoiceVars
    /\ inputData \in InputBuffers
    /\ pcmBlob = NoBlob

\* const pcmBlob = createBlob(inputData)  (line 631)
CallCreateBlob ==
    /\ pcmBlob = NoBlob
    /\ pcmBlob' = createBlob(inputData)
    /\ UNCHANGED <<remVars, voiceVars, inputData>>

NextBlob == CallCreateBlob

SpecBlob == InitBlob /\ [][NextBlob]_vars

\* ------------------------------------------------- reminder sweep: claims
\* a step of the model in which the sweep ran
SweepStep == now' # now /\ notificationPermission = "granted"

\* C1: a task whose reminder time is <= now, not completed and not yet
\* notified, gets exactly one notification and notified = TRUE from the next
\* sweep, and no later sweep creates another notification for it.
C1_TaskFiredOnceStep ==
    \A i \in 1..Len(todosNext) :
        LET todo == todosNext[i] IN
        /\ (/\ SweepStep
            /\ todo.reminder # ""
            /\ ~DateParse(todo.reminder).nan
            /\ DateParse(todo.reminder).ms <= now'
            /\ ~todo.completed
            /\ ~todo.notified)
           => /\ todoNotifications'[todo.id] = todoNotifications[todo.id] + 1
              /\ todosNext'[i].notified
        /\ todoNotifications[todo.id] >= 1
           => todoNotifications'[todo.id] = todoNotifications[todo.id]

C1_TaskFiredExactlyOnce == [][C1_TaskFiredOnceStep]_vars

\* C2: the sweep's write and a user's edit are merged: every record for
\* which the sweep created a notification carries notified = TRUE for as long
\* as it is in the collection, whatever user edits are applied around it.
C2_SweepWriteSurvivesUserEdit ==
    /\ \A id \in IdsOf(todosNext) :
          todoNotifications[id] >= 1 => RecOf(todosNext, id).notified
    /\ \A id \in IdsOf(calendarEventsNext) :
          eventNotifications[id] >= 1 => RecOf(calendarEventsNext, id).notified

\* C3: for every task and event, notified goes from FALSE to TRUE only in a
\* sweep at which the record's effective fire time is <= now, and never goes
\* back to FALSE while the record exists (so it is set at most once).
C3_NotifiedStep ==
    /\ \A id \in IdsOf(todosNext) \cap IdsOf(todosNext') :
          LET old == RecOf(todosNext, id)
              new == RecOf(todosNext', id)
          IN /\ old.notified => new.notified
             /\ (~old.notified /\ new.notified) =>
                   /\ SweepStep
                   /\ ~DateParse(old.reminder).nan
                   /\ DateParse(old.reminder).ms <= now'
    /\ \A id \in IdsOf(calendarEventsNext) \cap IdsOf(calendarEventsNext') :
          LET old == RecOf(calendarEventsNext, id)
              new == RecOf(calendarEventsNext', id)
              startAt == DateParse(EventDateTimeString(old.date, old.time))
          IN /\ old.notified => new.notified
             /\ (~old.notified /\ new.notified) =>
                   /\ SweepStep
                   /\ ~startAt.nan
                   /\ startAt.ms - old.reminder.minutes * 60000 <= now'

C3_NotifiedSetOnceNeverReset == [][C3_NotifiedStep]_vars

\* -------------------------------------------------- voice session: claims
Blank(text) == Trim(text) = <<>>

\* every session that was started is over and nothing is left to run or render
Ended ==
    /\ waiters = <<>>
    /\ starts = <<>>
    /\ \A i \in Sessions : sess[i].sock \notin {"connecting", "open"}
    /\ mounted =>
          /\ ~isRecording /\ ~isConnecting /\ ~isRecordingNext /\ ~isConnectingNext
          /\ transcription = transcriptionNext
          /\ recordingDuration = recordingDurationNext

\* the VoiceNotes the sessions 1..n should have produced, newest first
RECURSIVE ExpectedNotes(_)
ExpectedNotes(n) ==
    IF n = 0 THEN <<>>
    ELSE IF Blank(sess[n].heard) THEN ExpectedNotes(n - 1)
    ELSE <<[transcription |-> sess[n].heard, duration |-> sess[n].ticks]>>
         \o ExpectedNotes(n - 1)

\* C4: when onerror comes while recording with a non-empty accumulated
\* transcript, the teardown it starts emits a VoiceNote with that text.
C4_ErrorStopKeepsTranscript ==
    Ended =>
        \A i \in Sessions :
            ~Blank(sess[i].errText) =>
                \E n \in 1..Len(voiceNotes) :
                    voiceNotes[n].transcription = sess[i].errText

\* C5: calling stopRecording again for the same session changes nothing: a
\* session's connection is closed once and at most one VoiceNote is added
\* per session.
C5_StopIdempotent ==
    /\ \A i \in Sessions : sess[i].closes <= 1
    /\ Len(voiceNotes) <= nSess

\* C6: once the sessions have ended, each session that accumulated a
\* non-empty transcript has produced exactly one VoiceNote, holding its whole
\* transcript and the seconds counted for it, and no other VoiceNote exists.
C6_OneNotePerSession ==
    (Ended /\ \A i \in Sessions : ~sess[i].late) => voiceNotes = ExpectedNotes(nSess)

\* C7: a VoiceNote is only ever added while the current session has a
\* non-empty (non-whitespace) accumulated transcript.
C7_NoNoteStep ==
    Len(voiceNotes') > Len(voiceNotes) => nSess >= 1 /\ ~Blank(sess[nSess].heard)

C7_EmptySessionAddsNoNote == [][C7_NoNoteStep]_vars

ClosedWaiting ==
    \E k \in 1..Len(waiters) : waiters[k].kind = "stop" /\ waiters[k].pc = "closed"

\* C8 (as the code has it): a teardown with a connection to close first
\* closes the connection and clears its reference, releasing and finalizing
\* nothing yet; the same turn then stops the stream, disconnects the script
\* processor and closes the audio context, and finalizes last, with no audio
\* window pulled and no frame sent in between.  A VoiceNote is only added once
\* connection reference, stream, processor and audio context are released,
\* and every frame sent went to an open connection.
C8_TeardownStep ==
    /\ (\E i \in Sessions : sess'[i].closes > sess[i].closes) =>
          /\ sessionPromiseRef' = 0
          /\ UNCHANGED <<streamRef, scriptProcessorRef, inputAudioContextRef,
                         voiceNotes, transcriptionNext, recordingDurationNext>>
    /\ ClosedWaiting =>
          /\ ~ClosedWaiting'
          /\ streamRef' = 0 /\ scriptProcessorRef' = 0 /\ inputAudioContextRef' = 0
          /\ frames' = frames /\ sent' = sent
    /\ Len(voiceNotes') > Len(voiceNotes) =>
          /\ sessionPromiseRef' = 0 /\ streamRef' = 0
          /\ scriptProcessorRef' = 0 /\ inputAudioContextRef' = 0
    /\ \A k \in 1..Len(sent') : sent'[k].sock = "open"

C9_LateOpenDiscarded ==
    \A i \in Sessions :
        sess[i].cancelled => sess[i].timer = "none" /\ sess[i].processor = "none"

\* a stopRecording of session i waits on a settled promise: it runs next
StopRunnable(i) ==
    \E k \in 1..Len(waiters) :
        waiters[k].kind = "stop" /\ waiters[k].p = i /\ Settled(Cur, i)

\* C10: once stopRecording was called for a session whose connection attempt
\* is over, the teardown is running or has done all its steps: the
\* connection was closed, the reference to it cleared and the microphone
\* stream stopped.
C10_TeardownCompletes ==
    \A i \in Sessions :
        (sess[i].stopCalled /\ sess[i].sock # "connecting" /\ ~StopRunnable(i)) =>
            /\ sess[i].closes >= 1
            /\ sessionPromiseRef # i
            /\ sess[i].stream # "live"

\* the session is Idle: not connecting, not recording, no start and no
\* teardown in progress
Idle ==
    /\ ~isRecording /\ ~isConnecting /\ ~isRecordingNext /\ ~isConnectingNext
    /\ starts = <<>>
    /\ \A k \in 1..Len(waiters) : waiters[k].kind # "stop"
    /\ \A i \in Sessions : sess[i].sock # "connecting"

\* C11: whenever the session is Idle no transient resource is held: stream,
\* audio context, script processor, session reference and duration timer
\* are null, and the transcript buffer and the duration counter are reset.
C11_IdleHoldsNothing ==
    Idle =>
        /\ streamRef = 0 /\ inputAudioContextRef = 0 /\ scriptProcessorRef = 0
        /\ sessionPromiseRef = 0 /\ recordingTimerRef = 0
        /\ transcriptionNext = <<>> /\ recordingDurationNext = 0

SendWaiting == {k \in 1..Len(waiters) : waiters[k].kind = "send"}

\* C12: the frames passed to sendRealtimeInput are the captured windows in
\* capture order, each exactly once: the k-th frame sent is the k-th window
\* captured, and every captured window was sent or waits to be sent.
C12_FramesInCaptureOrder ==
    /\ \A k \in 1..Len(sent) : sent[k].frame = k
    /\ Len(sent) + Cardinality(SendWaiting) = frames

\* a session sent all its windows and was then torn down
C12_Witness ==
    /\ frames = MaxAudioFrames
    /\ Len(sent) = MaxAudioFrames
    /\ \E i \in Sessions : sess[i].closes >= 1 /\ sess[i].processor = "disconnected"

\* ------------------------------------------------------ reminders: claims 2
\* the events of a collection that have a reminder whose time has come
EventsDueBy(events, t) ==
    {events[i].id : i \in {j \in 1..Len(events) :
        ~events[j].reminder.isNull /\ DateLeq(ReminderTime(events[j]), t)}}

\* C13: an event with start T and a reminder lead is notified at T - lead:
\* no sweep before that time notifies it, a sweep at or after that time does
\* not leave it without a notification, and no sweep notifies it a second
\* time.
C13_EventStep ==
    /\ \A id \in Ids :
          eventNotifications'[id] > eventNotifications[id] =>
              /\ id \in EventsDueBy(calendarEventsNext, now')
              /\ eventNotifications[id] = 0
              /\ eventNotifications'[id] = 1
    /\ (SweepStep /\ notificationPermission = "granted") =>
          \A id \in EventsDueBy(calendarEventsNext, now') : eventNotifications'[id] >= 1

C13_EventNotifiedOnceAtLead == [][C13_EventStep]_vars

\* C14: a sweep only notifies a task that, in the collection the sweep reads,
\* is not completed and has a reminder time that is not in the future: a task
\* whose reminder is still ahead is not notified, and a task toggled to
\* completed before its reminder time is not notified by the sweeps that run
\* after that time.
C14_TodoStep ==
    \A id \in Ids :
        todoNotifications'[id] > todoNotifications[id] =>
            \E i \in 1..Len(todosNext) :
                /\ todosNext[i].id = id
                /\ ~todosNext[i].completed
                /\ ~DateParse(todosNext[i].reminder).nan
                /\ DateParse(todosNext[i].reminder).ms <= now'

C15_NoOpSweepStep ==
    SweepStep =>
        /\ (\A i \in 1..Len(todosNext) : ~TodoDue(todosNext[i], now')) =>
              /\ todosNext' = todosNext /\ todos' = todos
              /\ todosDirty' = todosDirty
              /\ todoNotifications' = todoNotifications
              /\ ~todosSaved'
        /\ (\A i \in 1..Len(calendarEventsNext) :
                ~EventDue(calendarEventsNext[i], now')) =>
              /\ calendarEventsNext' = calendarEventsNext
              /\ calendarEvents' = calendarEvents
              /\ eventsDirty' = eventsDirty
              /\ eventNotifications' = eventNotifications
              /\ ~eventsSaved'

C15_NoOpSweepWritesNothing == [][C15_NoOpSweepStep]_vars

\* a sweep with permission has just run over a task and an event, found
\* nothing eligible and left nothing to render or save
C15_Witness ==
    /\ notificationPermission = "granted"
    /\ \E id \in Ids : todoNotifications[id] >= 1
    /\ Len(calendarEventsNext) >= 1
    /\ ~todosDirty /\ ~eventsDirty /\ ~todosSaved /\ ~eventsSaved

NotifiedIds(records) ==
    {records[i].id : i \in {j \in 1..Len(records) : records[j].notified}}

\* C16: while the permission is not 'granted' no step creates a notification
\* or sets a notified flag, however overdue the records are, the step that
\* grants the permission included; once it is granted the next tick of the
\* sweep notifies every overdue unnotified record and sets its flag.
C16_PermissionStep ==
    /\ notificationPermission # "granted" =>
          /\ todoNotifications' = todoNotifications
          /\ eventNotifications' = eventNotifications
          /\ NotifiedIds(todosNext') \subseteq NotifiedIds(todosNext)
          /\ NotifiedIds(calendarEventsNext') \subseteq NotifiedIds(calendarEventsNext)
    /\ SweepStep =>
          /\ Len(todosNext') = Len(todosNext)
          /\ Len(calendarEventsNext') = Len(calendarEventsNext)
          /\ \A i \in 1..Len(todosNext) :
                TodoDue(todosNext[i], now') =>
                    /\ todosNext'[i].notified
                    /\ todoNotifications'[todosNext[i].id] > todoNotifications[todosNext[i].id]
          /\ \A i \in 1..Len(calendarEventsNext) :
                EventDue(calendarEventsNext[i], now') =>
                    /\ calendarEventsNext'[i].notified
                    /\ eventNotifications'[calendarEventsNext[i].id] >
                          eventNotifications[calendarEventsNext[i].id]

C16_SweepGatedByPermission == [][C16_PermissionStep]_vars

\* a tick has just passed without the permission (nothing was saved and
\* nothing is left to render): a task and an event that were overdue a tick
\* before are still not notified
C16_Witness ==
    /\ notificationPermission = "default"
    /\ now >= 2 * CheckInterval
    /\ ~todosDirty /\ ~eventsDirty /\ ~todosSaved /\ ~eventsSaved
    /\ \E i \in 1..Len(todosNext) :
          /\ TodoDue(todosNext[i], CheckInterval)
          /\ todoNotifications[todosNext[i].id] = 0
    /\ \E i \in 1..Len(calendarEventsNext) :
          /\ EventDue(calendarEventsNext[i], CheckInterval)
          /\ eventNotifications[calendarEventsNext[i].id] = 0

\* C17: every record that is eligible in a sweep has notified = TRUE after
\* that sweep, whether or not its `new Notification` succeeded, and whether
\* or not the notification of another record of the same sweep failed.
C17_FlagStep ==
    SweepStep =>
        /\ Len(todosNext') = Len(todosNext)
        /\ Len(calendarEventsNext') = Len(calendarEventsNext)
        /\ \A i \in 1..Len(todosNext) :
              TodoDue(todosNext[i], now') => todosNext'[i].notified
        /\ \A i \in 1..Len(calendarEventsNext) :
              EventDue(calendarEventsNext[i], now') => calendarEventsNext'[i].notified

C17_FlagSetEvenIfNotificationFails == [][C17_FlagStep]_vars

TodoMalformed(todo) == todo.reminder # "" /\ DateParse(todo.reminder).nan

EventMalformed(event) ==
    ~event.reminder.isNull /\ DateParse(EventDateTimeString(event.date, event.time)).nan

\* C18: a record with an unparseable date or time does not abort the sweep:
\* the sweep leaves that record as it was and creates no notification for
\* it, and every other record of the collection that is eligible is still
\* notified and flagged.
C18_MalformedStep ==
    SweepStep =>
        /\ ~crashed'
        /\ Len(todosNext') = Len(todosNext)
        /\ Len(calendarEventsNext') = Len(calendarEventsNext)
        /\ \A i \in 1..Len(todosNext) :
              LET todo == todosNext[i] IN
              /\ TodoMalformed(todo) =>
                    /\ todosNext'[i] = todo
                    /\ todoNotifications'[todo.id] = todoNotifications[todo.id]
              /\ (/\ todo.reminder # "" /\ ~todo.completed /\ ~todo.notified
                  /\ ~DateParse(todo.reminder).nan
                  /\ DateParse(todo.reminder).ms <= now') =>
                    /\ todosNext'[i].notified
                    /\ todoNotifications'[todo.id] = todoNotifications[todo.id] + 1
        /\ \A i \in 1..Len(calendarEventsNext) :
              LET event == calendarEventsNext[i] IN
              /\ EventMalformed(event) =>
                    /\ calendarEventsNext'[i] = event
                    /\ eventNotifications'[event.id] = eventNotifications[event.id]
              /\ (/\ ~event.reminder.isNull /\ ~event.notified
                  /\ ~EventMalformed(event)
                  /\ ReminderTime(event).ms <= now') =>
                    /\ calendarEventsNext'[i].notified
                    /\ eventNotifications'[event.id] = eventNotifications[event.id] + 1

C18_MalformedDateSkipped == [][C18_MalformedStep]_vars

\* a sweep went over a task with an unparseable reminder, left it alone, and
\* notified the task after it
C18_Witness ==
    /\ Len(todosNext) = 2
    /\ TodoMalformed(todosNext[1])
    /\ ~todosNext[1].notified
    /\ todoNotifications[todosNext[1].id] = 0
    /\ todosNext[2].notified
    /\ todoNotifications[todosNext[2].id] = 1

\* ------------------------------------------------ voice session: claims 2
\* a step in which startRecording was called
StartStep == Len(starts') > Len(starts)

\* C19: startRecording only takes effect when the session is Idle: while the
\* session is Connecting, Recording or being torn down no call of it changes
\* the state, asks for the microphone or opens a connection.
C19_StartOnlyWhenIdleStep == StartStep => Idle

C19_StartWhileBusyIsNoOp == [][C19_StartOnlyWhenIdleStep]_vars

\* the connections that are open or being opened
LiveConnections == {i \in Sessions : sess[i].sock \in {"connecting", "open"}}

\* C20: at most one remote connection is open or being opened at any time: a
\* new connection is never opened while an earlier one has not been closed.
C20_AtMostOneConnection == Cardinality(LiveConnections) <= 1

\* a step in which callbacks.onerror of session i ran, and with it the
\* stopRecording it closed over
ErrorStopStep == \E i \in Sessions : sess[i].sock # "failed" /\ sess'[i].sock = "failed"

\* C21: a stopRecording called while the session is Idle, as by the late
\* onerror of a finished session, does nothing: no connection is closed or
\* awaited, no VoiceNote is added, and the transcript, the duration and the
\* voice notes stay as they were.
C21_IdleStopStep ==
    (Idle /\ ErrorStopStep) =>
        /\ UNCHANGED <<voiceNotes, transcriptionNext, recordingDurationNext, waiters>>
        /\ \A i \in Sessions : sess'[i].closes = sess[i].closes

C21_StopWhileIdleIsNoOp == [][C21_IdleStopStep]_vars

\* a step in which a getUserMedia of startRecording was rejected
MicFailureStep == Len(starts') < Len(starts) /\ nSess' = nSess

\* C22: when getUserMedia fails, the start is over with recordingError set
\* and isConnecting cleared, and nothing else happened: no connection was
\* opened, no stream, audio context, processor or timer was created, no audio
\* window was pulled or sent and no VoiceNote was added.
C22_MicFailureStep ==
    MicFailureStep =>
        /\ mounted => recordingError' \in {"permission", "start"} /\ ~isConnectingNext'
        /\ UNCHANGED <<sess, nSess, sessionPromiseRef, streamRef, inputAudioContextRef,
                       scriptProcessorRef, recordingTimerRef, waiters, frames, sent,
                       voiceNotes, isRecordingNext, isRecording>>

C22_MicFailureReturnsToIdle == [][C22_MicFailureStep]_vars

\* the first start failed at the microphone and the session is Idle again,
\* showing the error
C22_Witness ==
    /\ mounted /\ Idle /\ nSess = 0
    /\ recordingError \in {"permission", "start"}
    /\ voiceNotes = <<>> /\ frames = 0

\* C23: the text finalized into a VoiceNote is the concatenation, in arrival
\* order, of all the fragments received on the session's connection, trimmed
\* of leading and trailing whitespace.
C23_FinalizedStep ==
    Len(voiceNotes') > Len(voiceNotes) =>
        /\ nSess >= 1
        /\ voiceNotes'[1].transcription = Trim(sess[nSess].heard)

C23_TranscriptIsTrimmedConcatenation == [][C23_FinalizedStep]_vars

\* the sessions whose duration timer is live
LiveTimers == {i \in Sessions : sess[i].timer = "running"}

\* C24: the duration counter is set to 0 when onopen makes the session
\* Recording; a tick of a session's timer comes only while that session is
\* Recording (its connection open, no teardown begun) and adds exactly 1 to
\* the counter; at most one duration timer is live.
C24_DurationStep ==
    /\ \A i \in Sessions :
          (sess[i].sock = "connecting" /\ sess'[i].sock = "open" /\ mounted) =>
              recordingDurationNext' = 0
    /\ \A i \in Sessions :
          (sess'[i].ticks > sess[i].ticks /\ mounted) =>
              /\ isRecordingNext
              /\ sess[i].sock = "open" /\ ~sess[i].stopCalled
              /\ recordingDurationNext' = recordingDurationNext + 1
    /\ Cardinality(LiveTimers') <= 1

C24_DurationCountsWhileRecording == [][C24_DurationStep]_vars

\* the current session is Connecting: its microphone is acquired and its
\* connection requested, and its onopen has not come
Connecting == sessionPromiseRef # 0 /\ sess[sessionPromiseRef].sock = "connecting"

\* C25: while the current session is Connecting no audio window is pulled
\* from the capture device, no frame is sent or queued for sending, and the
\* session has no script processor.
C25_ConnectingStep ==
    Connecting =>
        /\ frames' = frames /\ sent' = sent
        /\ SendWaiting = {}
        /\ sess[sessionPromiseRef].processor = "none"

C25_NoAudioWhileConnecting == [][C25_ConnectingStep]_vars

\* C27: while Recording, teardown begins only in a step that is a click on
\* stop, an onerror callback or the unmount of the component: neither the
\* render of a duration tick or of a transcript fragment, which gives
\* stopRecording a new identity, nor anything else calls stopRecording.
C27_LeaveRecordingStep ==
    (mounted /\ isRecordingNext /\ ~isRecordingNext') =>
        \/ ClickStop
        \/ \E i \in Sessions : OnError(i)
        \/ Unmount

C27_OnlyStopErrorUnmountEndRecording == [][C27_LeaveRecordingStep]_vars

\* C28: a fragment that arrives on the connection of a session whose
\* teardown has closed that connection and finalized is not added to the
\* transcript buffer, which by then belongs to no session or to a later one.
C28_LateFragmentStep ==
    \A i \in Sessions :
        (Len(sess'[i].heard) > Len(sess[i].heard) /\ sess[i].closes >= 1) =>
            transcriptionNext' = transcriptionNext

C28_FragmentStaysInItsSession == [][C28_LateFragmentStep]_vars

\* C29: a stopRecording that awaited the connection of session p closes
\* that connection and clears the reference to it, not the reference to
\* another session's connection, and the stream, script processor and audio
\* context it then releases are those of session p.
C29_OwnSessionStep ==
    /\ \A p \in Sessions :
          sess'[p].closes > sess[p].closes => sessionPromiseRef \in {0, p}
    /\ \A k \in 1..Len(waiters) :
          (waiters[k].kind = "stop" /\ waiters[k].pc = "closed") =>
              /\ streamRef \in {0, waiters[k].p}
              /\ scriptProcessorRef \in {0, waiters[k].p}
              /\ inputAudioContextRef \in {0, waiters[k].p}

C29_TeardownReleasesOwnSession == [][C29_OwnSessionStep]_vars

\* -------------------------------------------------------- createBlob: claims
Base64Index(c) == CHOOSE x \in 0..(Len(Base64Alphabet) - 1) : Base64Alphabet[x + 1] = c

\* the bytes a base64 text stands for: what the receiver of the Blob reads
atob(chars) ==
    LET groups == Len(chars) \div 4
        pads == Cardinality({j \in 1..Len(chars) : chars[j] = Base64Pad})
        D(j) == IF chars[j] = Base64Pad THEN 0 ELSE Base64Index(chars[j])
        Byte(k) ==
            LET g == (k - 1) \div 3
                r == (k - 1) % 3
            IN CASE r = 0 -> D(4 * g + 1) * 4 + D(4 * g + 2) \div 16
                 [] r = 1 -> (D(4 * g + 2) % 16) * 16 + D(4 * g + 3) \div 4
                 [] r = 2 -> (D(4 * g + 3) % 4) * 64 + D(4 * g + 4)
    IN [k \in 1..(3 * groups - pads) |-> Byte(k)]

\* the signed 16-bit value of sample i in a payload, low byte first
Int16At(payload, i) == ToInt16(payload[2 * i - 1] + ByteRange * payload[2 * i])

\* C26: the payload of the Blob createBlob returns for n samples is, before
\* base64, exactly 2 * n bytes; its mimeType is "audio/pcm;rate=16000"; and
\* for an input of zeros every byte of the payload is zero.
C26_PayloadTwoBytesPerSample ==
    pcmBlob # NoBlob =>
        LET payload == atob(pcmBlob.data)
        IN /\ Len(payload) = 2 * Len(inputData)
           /\ pcmBlob.mimeType = "audio/pcm;rate=16000"
           /\ (\A i \in 1..Len(inputData) : inputData[i] = 0) =>
                  \A k \in 1..Len(payload) : payload[k] = 0

\* createBlob was applied to the silent window of 4096 samples and gave 8192
\* bytes
C26_Witness ==
    /\ pcmBlob # NoBlob
    /\ Len(inputData) = WindowSize
    /\ Len(atob(pcmBlob.data)) = 2 * WindowSize

\* C30: for every sample s of [-1, 1] the 16-bit value in the payload is
\* s * 32768 with its fraction dropped: it lies in -32768..32767 and is
\* never of the opposite sign of s, also for s = 1.
C30_SampleScaledWithoutWrap ==
    pcmBlob # NoBlob =>
        LET payload == atob(pcmBlob.data)
        IN \A i \in 1..Len(inputData) :
              LET q == inputData[i]
                  stored == Int16At(payload, i)
              IN /\ stored = Truncate(q, Resolution)
                 /\ stored \in (-FullScale)..(FullScale - 1)
                 /\ q > 0 => stored >= 0
                 /\ q < 0 => stored <= 0


====
